---- MODULE Spec2Model ----
(***************************************************************************)
(* A model of src/run.py: MidiSoundPlayer builds a library (self.sounds)  *)
(* from a note map, fills unassigned keys by pitch shifting, and plays    *)
(* library entries on a bounded pool of mixer channels.                   *)
(*                                                                         *)
(* A Sound is modelled by its provenance: the file it was decoded from     *)
(* and the semitone shifts applied to it since, in order.  Frame counts    *)
(* are kept only as "zero frames or not"; source files that decode to a    *)
(* non-empty buffer are taken to be long enough for every resampling to    *)
(* leave at least one frame.                                               *)
(*                                                                         *)
(* log holds the records MidiSoundPlayer logs while loading (lines 85, 87,  *)
(* 89) and while dispatching (line 145).  The DEBUG records of the fill    *)
(* pass (lines 119, 128, 138) are not kept.                                *)
(***************************************************************************)
EXTENDS Integers, Sequences, FiniteSets

\* ---- bounds of the model ----
MaxRoots == 2
MaxReconf == 1
MaxChannels == 2
MaxMsgs == 3

\* ---- program constants ----
DefaultNumChannels == 64

PitchShiftFill == {"OFF", "FORWARD", "BACKWARD"}

all_notes == 21 .. 108

MidiNotes == 0 .. 127

\* ---- inputs ----
\* The files a note map may name.  "None" is a falsy path (line 81),
\* "missing.wav" does not exist (line 82), "corrupt.wav" exists and makes
\* pygame.mixer.Sound raise pygame.error (line 86), "empty.wav" decodes to a
\* buffer of zero frames, every other path decodes to a non-empty buffer.
Paths == {"None", "missing.wav", "corrupt.wav", "empty.wav", "a.wav", "b.wav"}

NoteKeys == {19, 60, 64, 110}

SmallKeys == {60, 64}

TriggerNotes == {60, 61}

Velocities == {0, 64}

SmallPaths == {"missing.wav", "empty.wav", "a.wav", "b.wav"}

\* A note map is a Python dict: its entries <<note, path>> in insertion order,
\* no key twice.
OrderedMaps(keys, paths) ==
    {nm \in UNION {[1 .. k -> keys \X paths] : k \in 0 .. MaxRoots} :
        \A i, j \in DOMAIN nm : i # j => nm[i][1] # nm[j][1]}

NoteMaps == OrderedMaps(NoteKeys, Paths)

\* The smaller input set of the specifications that call set_note_map or dispatch.
SmallMaps == OrderedMaps(SmallKeys, SmallPaths)

MidiMessages == [type : {"note_on", "note_off"}, note : TriggerNotes, velocity : Velocities]

\* The note map of the __main__ block.
MainNoteMap ==
    << <<62, "sounds/awawa.mp3">>,
       <<64, "sounds/Scratch 1.wav">>,
       <<65, "sounds/Random Noise 1.wav">>,
       <<66, "sounds/Vox 1.wav">>,
       <<67, "sounds/Synth 1.wav">>,
       <<68, "sounds/Synth 2.wav">>,
       <<69, "sounds/chris.wav">> >>

VARIABLES
    pc,               \* "config": before MidiSoundPlayer(config) (line 170); "ready": the
                      \* player exists; "raised": an exception left __init__, no player exists
    exc,              \* the exception that left the last set_note_map call, or "None"
    note_map,         \* config.note_map (line 28)
    pitch_shift_fill, \* config.pitch_shift_fill (line 29)
    num_channels,     \* config.num_channels (line 34)
    sounds,           \* self.sounds: note -> Sound (line 74)
    assigned_notes,   \* the sorted key list the last fill pass started from (line 118)
    log,              \* the records logged so far (lines 85, 87, 89, 145)
    channels,         \* the mixer's channels (line 72): <<>> when free, <<sound>> when playing
    reconfs,          \* number of set_note_map calls made
    msgs,             \* number of MIDI messages handled (line 177)
    bpc,              \* position of a set_note_map call that runs statement by statement
    todo_load,        \* note map entries that call has still to load (line 80)
    pending,          \* the record that call is about to log (lines 85, 87, 89)
    todo_fill,        \* assignments that call's fill pass has still to make (lines 125, 135)
    before,           \* self.sounds when that call began
    dpc,              \* position of a handle_midi_message call that runs statement by statement
    d_note,           \* msg.note of that call
    d_sound,          \* its local variable sound (line 142): <<>> for None
    d_channel         \* what sound.play() returned to it (line 144) and the code drops:
                      \* the channel the sound started on, 0 for None

vars == <<pc, exc, note_map, pitch_shift_fill, num_channels, sounds, assigned_notes, log,
          channels, reconfs, msgs, bpc, todo_load, pending, todo_fill, before, dpc, d_note,
          d_sound, d_channel>>

\* What the statement-by-statement calls use.
stepvars == <<bpc, todo_load, pending, todo_fill, before, dpc, d_note, d_sound,
              d_channel>>

\* ---- helpers ----
EmptyDict == [n \in {} |-> [file |-> "", shifts |-> <<>>]]

Put(d, k, v) == [x \in (DOMAIN d) \cup {k} |-> IF x = k THEN v ELSE d[x]]

SetMin(S) == CHOOSE x \in S : \A y \in S : x <= y

SetMax(S) == CHOOSE x \in S : \A y \in S : x >= y

\* sorted(...) of a set of MIDI note numbers
sorted(S) == SelectSeq([i \in 1 .. 128 |-> i - 1], LAMBDA n : n \in S)

\* range(a, b) of Python, as a sequence
range(a, b) == [k \in 1 .. (IF b > a THEN b - a ELSE 0) |-> a + k - 1]

\* ---- the decoder and the resampler ----
exists(path) == path # "missing.wav"

Decodes(path) == path # "corrupt.wav"

Sound(path) == [file |-> path, shifts |-> <<>>]

ZeroFrames(sound) == sound.file = "empty.wav"

\* _resample_sound: np.interp raises ValueError on an empty array of sample
\* points (arr.shape[0] = 0); otherwise a new Sound shifted by semitone_shift.
resample_sound(sound, semitone_shift) ==
    IF ZeroFrames(sound)
    THEN [raised |-> TRUE, sound |-> sound]
    ELSE [raised |-> FALSE,
          sound |-> [file |-> sound.file, shifts |-> Append(sound.shifts, semitone_shift)]]

\* ---- _preload_sounds ----
\* st is the player's state while an operation runs:
\* [sounds, log, assigned_notes, raised].
\* A variant of preload_entry that skips a failing entry without logging.
preload_entry_silent(st, note, path) ==
    IF path = "None" THEN st
    ELSE IF exists(path) /\ Decodes(path)
         THEN [st EXCEPT !.sounds = Put(@, note, Sound(path)),
                         !.log = Append(@, [level |-> "INFO", msg |-> "Loaded sound for note",
                                            note |-> note, path |-> path])]
         ELSE st

\* A variant of preload_entry that leaves a key already in the library as it is.
preload_entry_keep(st, note, path) ==
    IF path = "None" THEN st
    ELSE IF exists(path)
         THEN IF Decodes(path)
              THEN [st EXCEPT !.sounds = IF note \in DOMAIN @ THEN @ ELSE Put(@, note, Sound(path)),
                              !.log = Append(@, [level |-> "INFO", msg |-> "Loaded sound for note",
                                                 note |-> note, path |-> path])]
              ELSE [st EXCEPT !.log = Append(@, [level |-> "ERROR", msg |-> "Could not load",
                                                 note |-> note, path |-> path])]
         ELSE [st EXCEPT !.log = Append(@, [level |-> "ERROR", msg |-> "File not found",
                                            note |-> note, path |-> path])]

\* One iteration of the loop of lines 80-89.
preload_entry(st, note, path) ==
    IF path = "None" THEN st
    ELSE IF exists(path)
         THEN IF Decodes(path)
              THEN [st EXCEPT !.sounds = Put(@, note, Sound(path)),
                              !.log = Append(@, [level |-> "INFO", msg |-> "Loaded sound for note",
                                                 note |-> note, path |-> path])]
              ELSE [st EXCEPT !.log = Append(@, [level |-> "ERROR", msg |-> "Could not load",
                                                 note |-> note, path |-> path])]
         ELSE [st EXCEPT !.log = Append(@, [level |-> "ERROR", msg |-> "File not found",
                                            note |-> note, path |-> path])]

RECURSIVE preload_from(_, _, _)
preload_from(st, nm, i) ==
    IF i > Len(nm) THEN st
    ELSE preload_from(preload_entry(st, nm[i][1], nm[i][2]), nm, i + 1)

\* The loop of line 80: the entries of the note map in insertion order.
preload_sounds(st, nm) == preload_from(st, nm, 1)

\* ---- _fill_unassigned_keys ----
\* A variant of forward_steps whose last gap ends at 107.
forward_steps_short(assigned, i) ==
    LET note == assigned[i]
        next_note == IF i + 1 <= Len(assigned) THEN assigned[i + 1] ELSE 108
        r == range(note + 1, next_note)
    IN  [k \in 1 .. Len(r) |-> [fill_note |-> r[k], note |-> note, shift |-> r[k] - note]]

\* The inner loop of lines 122-128 for the root at (1-based) position i.
forward_steps(assigned, i) ==
    LET note == assigned[i]
        next_note == IF i + 1 <= Len(assigned) THEN assigned[i + 1] ELSE 109
        r == range(note + 1, next_note)
    IN  [k \in 1 .. Len(r) |-> [fill_note |-> r[k], note |-> note, shift |-> r[k] - note]]

\* The inner loop of lines 131-138 for the root at (1-based) position i.
backward_steps(assigned, i) ==
    LET note == assigned[i]
        prev_note == IF i > 1 THEN assigned[i - 1] ELSE 21
        r == range(prev_note + 1, note)
    IN  [k \in 1 .. Len(r) |-> [fill_note |-> r[k], note |-> note, shift |-> r[k] - note]]

RECURSIVE forward_plan(_, _)
forward_plan(assigned, i) ==
    IF i > Len(assigned) THEN <<>>
    ELSE forward_steps(assigned, i) \o forward_plan(assigned, i + 1)

RECURSIVE backward_plan(_, _)
backward_plan(assigned, i) ==
    IF i < 1 THEN <<>>
    ELSE backward_steps(assigned, i) \o backward_plan(assigned, i - 1)

\* The assignments of a fill pass, in the order the loops make them.
fill_plan(policy, assigned) ==
    IF policy = "FORWARD" THEN forward_plan(assigned, 1)
    ELSE IF policy = "BACKWARD" THEN backward_plan(assigned, Len(assigned))
    ELSE <<>>

\* One assignment self.sounds[fill_note] = self._resample_sound(root_sound, shift);
\* an exception of _resample_sound propagates.
fill_step(st, step) ==
    LET r == resample_sound(st.sounds[step.note], step.shift)
    IN  IF r.raised THEN [st EXCEPT !.raised = TRUE]
        ELSE [st EXCEPT !.sounds = Put(@, step.fill_note, r.sound)]

RECURSIVE run_fill(_, _, _)
run_fill(st, plan, i) ==
    IF i > Len(plan) \/ st.raised THEN st
    ELSE run_fill(fill_step(st, plan[i]), plan, i + 1)

fill_unassigned_keys(st, policy) ==
    LET assigned == sorted(DOMAIN st.sounds)
    IN  run_fill([st EXCEPT !.assigned_notes = assigned], fill_plan(policy, assigned), 1)

\* _preload_sounds followed by the fill pass unless the policy is OFF:
\* the body shared by __init__ (lines 75-77) and set_note_map (lines 149-151).
load_and_fill(st, nm, policy) ==
    LET loaded == preload_sounds(st, nm)
    IN  IF policy # "OFF" THEN fill_unassigned_keys(loaded, policy) ELSE loaded

\* ---- the mixer ----
FreeChannels(chs) == {c \in DOMAIN chs : chs[c] = <<>>}

\* Sound.play(): the sound starts on the first free channel; with no free
\* channel nothing is played and None is returned.
play(chs, sound) ==
    IF FreeChannels(chs) = {} THEN chs
    ELSE [chs EXCEPT ![SetMin(FreeChannels(chs))] = <<sound>>]

Playing(chs) == {c \in DOMAIN chs : chs[c] # <<>>}

\* ---- initial states: a MidiSoundConfig has been built ----
InitWith(maps, fills, capacities) ==
    /\ pc = "config"
    /\ exc = "None"
    /\ note_map \in maps
    /\ pitch_shift_fill \in fills
    /\ num_channels \in capacities
    /\ sounds = EmptyDict
    /\ assigned_notes = <<>>
    /\ log = <<>>
    /\ channels = <<>>
    /\ reconfs = 0
    /\ msgs = 0
    /\ bpc = "idle"
    /\ todo_load = <<>>
    /\ pending = <<>>
    /\ todo_fill = <<>>
    /\ before = EmptyDict
    /\ dpc = "idle"
    /\ d_note = 0
    /\ d_sound = <<>>
    /\ d_channel = 0

Init == InitWith(SmallMaps, PitchShiftFill, 1 .. MaxChannels)

InitLoad == InitWith(NoteMaps, PitchShiftFill, {DefaultNumChannels})

InitReconf == InitWith(SmallMaps, PitchShiftFill, {DefaultNumChannels})

InitConc == InitWith({MainNoteMap}, {"FORWARD"}, 1 .. MaxChannels)

\* ---- actions ----
\* MidiSoundPlayer.__init__; when it raises, no player comes to exist.
MidiSoundPlayer_init ==
    /\ pc = "config"
    /\ LET st == load_and_fill([sounds |-> EmptyDict, log |-> log,
                                assigned_notes |-> assigned_notes, raised |-> FALSE],
                               note_map, pitch_shift_fill)
       IN  /\ sounds' = st.sounds
           /\ log' = st.log
           /\ assigned_notes' = st.assigned_notes
           /\ pc' = IF st.raised THEN "raised" ELSE "ready"
    /\ channels' = [c \in 1 .. num_channels |-> <<>>]
    /\ UNCHANGED <<exc, note_map, pitch_shift_fill, num_channels, reconfs, msgs>>
    /\ UNCHANGED stepvars

\* MidiSoundPlayer.set_note_map, run to completion.  When it raises, the player
\* stays as the call left it and can be used again.
set_note_map(new_map) ==
    /\ pc = "ready"
    /\ bpc = "idle"
    /\ dpc = "idle"
    /\ reconfs < MaxReconf
    /\ note_map' = new_map
    /\ LET st == load_and_fill([sounds |-> sounds, log |-> log,
                                assigned_notes |-> assigned_notes, raised |-> FALSE],
                               new_map, pitch_shift_fill)
       IN  /\ sounds' = st.sounds
           /\ log' = st.log
           /\ assigned_notes' = st.assigned_notes
           /\ exc' = IF st.raised THEN "ValueError" ELSE "None"
    /\ reconfs' = reconfs + 1
    /\ UNCHANGED <<pc, pitch_shift_fill, num_channels, channels, msgs>>
    /\ UNCHANGED stepvars

\* The mixer finishes the playback on channel c.
PlaybackDone(c) ==
    /\ pc = "ready"
    /\ c \in Playing(channels)
    /\ channels' = [channels EXCEPT ![c] = <<>>]
    /\ UNCHANGED <<pc, exc, note_map, pitch_shift_fill, num_channels, sounds,
                   assigned_notes, log, reconfs, msgs>>
    /\ UNCHANGED stepvars

\* ---- set_note_map, one statement at a time ----
\* line 148
set_note_map_begin(new_map) ==
    /\ pc = "ready"
    /\ bpc = "idle"
    /\ reconfs < MaxReconf
    /\ note_map' = new_map
    /\ reconfs' = reconfs + 1
    /\ exc' = "None"
    /\ before' = sounds
    /\ todo_load' = new_map
    /\ bpc' = "preload"
    /\ UNCHANGED <<pc, pitch_shift_fill, num_channels, sounds, assigned_notes, log,
                   channels, msgs, pending, todo_fill, dpc, d_note, d_sound, d_channel>>

\* lines 80-84 for the next entry: the tests, the decoding and the dictionary write
preload_try ==
    /\ bpc = "preload"
    /\ pending = <<>>
    /\ todo_load # <<>>
    /\ LET st == preload_entry([sounds |-> sounds, log |-> <<>>,
                                assigned_notes |-> assigned_notes, raised |-> FALSE],
                               Head(todo_load)[1], Head(todo_load)[2])
       IN  /\ sounds' = st.sounds
           /\ pending' = st.log
    /\ todo_load' = Tail(todo_load)
    /\ UNCHANGED <<pc, exc, note_map, pitch_shift_fill, num_channels, assigned_notes, log,
                   channels, reconfs, msgs, bpc, todo_fill, before, dpc, d_note, d_sound, d_channel>>

\* line 85, 87 or 89: the record of the entry just tried
preload_log ==
    /\ bpc = "preload"
    /\ pending # <<>>
    /\ log' = log \o pending
    /\ pending' = <<>>
    /\ UNCHANGED <<pc, exc, note_map, pitch_shift_fill, num_channels, sounds,
                   assigned_notes, channels, reconfs, msgs, bpc, todo_load, todo_fill,
                   before, dpc, d_note, d_sound, d_channel>>

\* lines 150-151 and 117-118: the fill pass starts, or the call returns
preload_done ==
    /\ bpc = "preload"
    /\ pending = <<>>
    /\ todo_load = <<>>
    /\ IF pitch_shift_fill # "OFF"
       THEN /\ assigned_notes' = sorted(DOMAIN sounds)
            /\ todo_fill' = fill_plan(pitch_shift_fill, sorted(DOMAIN sounds))
            /\ bpc' = "fill"
       ELSE /\ bpc' = "idle"
            /\ UNCHANGED <<assigned_notes, todo_fill>>
    /\ UNCHANGED <<pc, exc, note_map, pitch_shift_fill, num_channels, sounds, log, channels,
                   reconfs, msgs, todo_load, pending, before, dpc, d_note, d_sound, d_channel>>

\* line 127 or 137: one assignment of the fill pass
fill_one ==
    /\ bpc = "fill"
    /\ todo_fill # <<>>
    /\ LET st == fill_step([sounds |-> sounds, log |-> log,
                            assigned_notes |-> assigned_notes, raised |-> FALSE],
                           Head(todo_fill))
       IN  /\ sounds' = st.sounds
           /\ IF st.raised
              THEN /\ exc' = "ValueError"
                   /\ bpc' = "idle"
                   /\ todo_fill' = <<>>
              ELSE /\ todo_fill' = Tail(todo_fill)
                   /\ UNCHANGED <<exc, bpc>>
    /\ UNCHANGED <<pc, note_map, pitch_shift_fill, num_channels, assigned_notes, log,
                   channels, reconfs, msgs, todo_load, pending, before, dpc, d_note,
                   d_sound, d_channel>>

fill_done ==
    /\ bpc = "fill"
    /\ todo_fill = <<>>
    /\ bpc' = "idle"
    /\ UNCHANGED <<pc, exc, note_map, pitch_shift_fill, num_channels, sounds,
                   assigned_notes, log, channels, reconfs, msgs, todo_load, pending,
                   todo_fill, before, dpc, d_note, d_sound, d_channel>>

\* ---- handle_midi_message, one statement at a time ----
\* lines 141-143: the test of the message and the lookup
dispatch_lookup(msg) ==
    /\ pc = "ready"
    /\ dpc = "idle"
    /\ msgs < MaxMsgs
    /\ msgs' = msgs + 1
    /\ IF msg.type = "note_on" /\ msg.velocity > 0 /\ msg.note \in DOMAIN sounds
       THEN /\ d_sound' = <<sounds[msg.note]>>
            /\ d_note' = msg.note
            /\ dpc' = "play"
       ELSE UNCHANGED <<d_sound, d_note, dpc>>
    /\ UNCHANGED <<pc, exc, note_map, pitch_shift_fill, num_channels, sounds,
                   assigned_notes, log, channels, reconfs, bpc, todo_load, pending,
                   todo_fill, before, d_channel>>

\* line 144
dispatch_play ==
    /\ dpc = "play"
    /\ channels' = play(channels, d_sound[1])
    /\ d_channel' = IF FreeChannels(channels) = {} THEN 0 ELSE SetMin(FreeChannels(channels))
    /\ dpc' = "log"
    /\ UNCHANGED <<pc, exc, note_map, pitch_shift_fill, num_channels, sounds,
                   assigned_notes, log, reconfs, msgs, bpc, todo_load, pending, todo_fill,
                   before, d_note, d_sound>>

\* line 145
dispatch_log ==
    /\ dpc = "log"
    /\ log' = Append(log, [level |-> "DEBUG", msg |-> "Played sound for note",
                           note |-> d_note, path |-> ""])
    /\ dpc' = "idle"
    /\ d_sound' = <<>>
    /\ d_channel' = 0
    /\ UNCHANGED <<pc, exc, note_map, pitch_shift_fill, num_channels, sounds,
                   assigned_notes, channels, reconfs, msgs, bpc, todo_load, pending,
                   todo_fill, before, d_note>>

\* ---- specifications ----
\* The program of the __main__ block: construction, then the dispatch loop, one
\* statement at a time, with the mixer ending playbacks in between.
Next ==
    \/ MidiSoundPlayer_init
    \/ \E msg \in MidiMessages : dispatch_lookup(msg)
    \/ dispatch_play
    \/ dispatch_log
    \/ \E c \in DOMAIN channels : PlaybackDone(c)

Spec == Init /\ [][Next]_vars

\* Construction alone, over every note map on NoteKeys.
NextLoad == MidiSoundPlayer_init

SpecLoad == InitLoad /\ [][NextLoad]_vars

\* Construction followed by set_note_map calls.
NextReconf ==
    \/ MidiSoundPlayer_init
    \/ \E new_map \in SmallMaps : set_note_map(new_map)

SpecReconf == InitReconf /\ [][NextReconf]_vars

\* set_note_map running on one thread while another dispatches messages, each
\* one statement at a time.
NextConc ==
    \/ MidiSoundPlayer_init
    \/ \E new_map \in SmallMaps : set_note_map_begin(new_map)
    \/ preload_try
    \/ preload_log
    \/ preload_done
    \/ fill_one
    \/ fill_done
    \/ \E msg \in MidiMessages : dispatch_lookup(msg)
    \/ dispatch_play
    \/ dispatch_log
    \/ \E c \in DOMAIN channels : PlaybackDone(c)

SpecConc == InitConc /\ [][NextConc]_vars

\* ---- what the claims speak about ----
\* A path that _preload_sounds turns into a library entry.
Loadable(path) == path # "None" /\ exists(path) /\ Decodes(path)

\* The notes of a note map whose files decode: the decoded roots.
Keys(nm) == {nm[i][1] : i \in DOMAIN nm}

\* nm[n] of the dict
PathOf(nm, n) == nm[CHOOSE i \in DOMAIN nm : nm[i][1] = n][2]

DecodedRoots(nm) == {n \in Keys(nm) : Loadable(PathOf(nm, n))}

\* The entries of a note map that name a file which is missing or does not decode.
FailedEntries(nm) == {n \in Keys(nm) : PathOf(nm, n) # "None" /\ ~Loadable(PathOf(nm, n))}

ErrorLogged(path) == \E i \in 1 .. Len(log) : log[i].level = "ERROR" /\ log[i].path = path

\* The library a fresh player built from nm under policy would hold.
FreshLibrary(nm, policy) ==
    load_and_fill([sounds |-> EmptyDict, log |-> <<>>, assigned_notes |-> <<>>,
                   raised |-> FALSE], nm, policy).sounds

\* C1: after construction with policy FORWARD from a note map with at least one
\* decoded root, every note m with min(roots) < m <= 108 that is not a decoded root
\* is in the library, derived from the greatest decoded root r <= m by the shift m - r.
C1_ForwardFill ==
    (pc = "ready" /\ reconfs = 0 /\ pitch_shift_fill = "FORWARD"
        /\ DecodedRoots(note_map) # {}) =>
        \A m \in MidiNotes :
            (SetMin(DecodedRoots(note_map)) < m /\ m <= 108 /\ m \notin DecodedRoots(note_map)) =>
                /\ m \in DOMAIN sounds
                /\ LET r == SetMax({x \in DecodedRoots(note_map) : x <= m})
                   IN  sounds[m] = [file |-> PathOf(note_map, r), shifts |-> <<m - r>>]

C1_Witness ==
    /\ pc = "ready"
    /\ pitch_shift_fill = "FORWARD"
    /\ note_map = << <<60, "a.wav">>, <<64, "b.wav">> >>
    /\ sounds[63] = [file |-> "a.wav", shifts |-> <<3>>]
    /\ sounds[108] = [file |-> "b.wav", shifts |-> <<44>>]
    /\ 59 \notin DOMAIN sounds

\* C2: after construction with policy BACKWARD from a note map with at least one
\* decoded root, every note m with 21 <= m < max(roots) that is not a decoded root is
\* in the library, derived from the smallest decoded root r >= m by the shift m - r;
\* in particular note 21 is filled when no root lies below the lowest root.
C2_BackwardFill ==
    (pc = "ready" /\ reconfs = 0 /\ pitch_shift_fill = "BACKWARD"
        /\ DecodedRoots(note_map) # {}) =>
        \A m \in MidiNotes :
            (21 <= m /\ m < SetMax(DecodedRoots(note_map)) /\ m \notin DecodedRoots(note_map)) =>
                /\ m \in DOMAIN sounds
                /\ LET r == SetMin({x \in DecodedRoots(note_map) : x >= m})
                   IN  sounds[m] = [file |-> PathOf(note_map, r), shifts |-> <<m - r>>]

\* C3: after a set_note_map call that returned, the library equals the library of a fresh construction
\* from the new note map with the same fill policy.
C3_RebuildIsFresh ==
    (pc = "ready" /\ reconfs > 0 /\ exc = "None") => sounds = FreshLibrary(note_map, pitch_shift_fill)

\* C4 as stated: every key of the current note map that is present in the library
\* maps to the buffer decoded from the file the current note map assigns to it.
C4_KeysHoldTheirFile ==
    pc = "ready" =>
        \A n \in Keys(note_map) \cap (DOMAIN sounds) : sounds[n] = Sound(PathOf(note_map, n))

\* C4 as amended: after construction and after any sequence of set_note_map calls,
\* every key of the current note map whose file exists and decodes is in the library
\* and maps to the buffer decoded from exactly that file.
C4_DecodedKeysHoldTheirFile ==
    pc # "config" =>
        \A n \in DecodedRoots(note_map) :
            n \in DOMAIN sounds /\ sounds[n] = Sound(PathOf(note_map, n))

C4_Witness ==
    /\ pc = "ready"
    /\ reconfs > 0
    /\ exc = "None"
    /\ note_map = << <<60, "b.wav">> >>
    /\ sounds[60] = Sound("b.wav")
    /\ 64 \in DOMAIN sounds
    /\ sounds[64] = Sound("a.wav")

\* C5: loading never aborts on a failing entry: every entry whose file exists and
\* decodes is loaded, every entry whose file is missing or does not decode is left
\* out of the roots with an ERROR record logged, and the roots the fill at
\* construction starts from are exactly the notes that decoded.
C5_LoadSkipsFailures ==
    (pc # "config" /\ reconfs = 0) =>
        /\ \A n \in DecodedRoots(note_map) :
               n \in DOMAIN sounds /\ sounds[n] = Sound(PathOf(note_map, n))
        /\ \A n \in FailedEntries(note_map) :
               /\ ErrorLogged(PathOf(note_map, n))
               /\ n \in DOMAIN sounds => sounds[n].shifts # <<>>
        /\ pitch_shift_fill # "OFF" => assigned_notes = sorted(DecodedRoots(note_map))
        /\ pitch_shift_fill = "OFF" => DOMAIN sounds = DecodedRoots(note_map)

C5_Witness ==
    /\ pc = "ready"
    /\ pitch_shift_fill = "FORWARD"
    /\ note_map = << <<64, "a.wav">>, <<60, "missing.wav">> >>
    /\ assigned_notes = <<64>>
    /\ 60 \notin DOMAIN sounds
    /\ Len(log) = 2
    /\ log[1].level = "INFO"
    /\ log[2].level = "ERROR"
    /\ log[2].path = "missing.wav"

\* C6: the number of playing voices never exceeds num_channels, and a trigger whose
\* play() finds every voice playing is dropped: it leaves every voice as it is, and
\* the record the call then logs for it is a diagnostic (a WARNING or ERROR record).
C6_DropIsReported ==
    [][/\ dispatch_play =>
              /\ Cardinality(Playing(channels')) <= num_channels
              /\ FreeChannels(channels) = {} => channels' = channels
       /\ (dispatch_log /\ d_channel = 0) =>
              /\ Len(log') > Len(log)
              /\ log'[Len(log')].level \in {"WARNING", "ERROR"}]_vars

\* C7: with policy OFF, after construction and after every set_note_map call, the
\* library has as many entries as the current note map has decoded entries.
C7_OffSizeIsRoots ==
    (pc = "ready" /\ pitch_shift_fill = "OFF" /\ exc = "None") =>
        Cardinality(DOMAIN sounds) = Cardinality(DecodedRoots(note_map))

\* C8: when a decoded root has zero frames the fill pass does not abort: nothing is
\* derived from that root, a diagnostic is reported, and every derivation from the
\* other roots is made.
C8_ZeroFrameRootSkipped ==
    (pc # "config" /\ reconfs = 0 /\ pitch_shift_fill # "OFF"
        /\ \E z \in DecodedRoots(note_map) : ZeroFrames(Sound(PathOf(note_map, z)))) =>
        /\ pc = "ready"
        /\ \A n \in (DOMAIN sounds) \ DecodedRoots(note_map) : ~ZeroFrames(sounds[n])
        /\ ErrorLogged("empty.wav")
        /\ LET plan == fill_plan(pitch_shift_fill, sorted(DecodedRoots(note_map)))
           IN  \A k \in 1 .. Len(plan) :
                   ~ZeroFrames(Sound(PathOf(note_map, plan[k].note))) =>
                       /\ plan[k].fill_note \in DOMAIN sounds
                       /\ sounds[plan[k].fill_note] =
                              [file |-> PathOf(note_map, plan[k].note), shifts |-> <<plan[k].shift>>]

\* C9: every lookup the dispatcher makes while a set_note_map call is rebuilding
\* reads either the complete library of the previous note map or the complete
\* library the call ends with, never something in between.
C9_NoHalfBuiltLibrary ==
    [][\A msg \in MidiMessages :
          (dispatch_lookup(msg) /\ bpc # "idle") =>
              \/ sounds = before
              \/ sounds = load_and_fill([sounds |-> before, log |-> <<>>,
                                         assigned_notes |-> <<>>, raised |-> FALSE],
                                        note_map, pitch_shift_fill).sounds]_vars

\* C10: with policy FORWARD or BACKWARD, every library entry that is not a decoded
\* root has a note number in 21..108.
C10_FillStaysInRange ==
    (pc = "ready" /\ reconfs = 0 /\ pitch_shift_fill # "OFF") =>
        \A n \in (DOMAIN sounds) \ DecodedRoots(note_map) : n \in all_notes

====
